---------------------------- MODULE Spec2Model ----------------------------
(***************************************************************************)
(* Strategy configuration and submission subsystem of the trading          *)
(* dashboard: the StrategyModal editor (react-hook-form draft, premium     *)
(* gating, normalisation of the payload), the StrategiesPage that owns the *)
(* strategy list, the dialogs and the requests to the backend, and the     *)
(* BacktestPage with its own form.  A run stays on the page it starts on.  *)
(*                                                                         *)
(* JavaScript values are modelled as follows.  A string the code          *)
(* transforms (the symbol) is a sequence of one-character strings; a       *)
(* string the code only compares or passes on (a type key, a timeframe, a  *)
(* plan) is a TLA+ string.  A value of a parameter field is a tagged       *)
(* record (JsNum, JsNaN, JsStr, JsList).  null / undefined of an object    *)
(* reference (the user, the subscription, the current strategy) is the     *)
(* empty sequence and a present object o is <<o>>.                         *)
(***************************************************************************)
EXTENDS Integers, Sequences, FiniteSets, Bags, TLC

VARIABLES
    user,             \* useAuth().user: <<>> or <<[subscription, role]>>
    strategies,       \* StrategiesPage state: the local strategy list
    loading,          \* StrategiesPage state: list loading flag
    isModalOpen,      \* StrategiesPage state: editor modal open
    currentStrategy,  \* StrategiesPage state: <<>> or <<instance being edited>>
    formValues,       \* StrategyModal useForm(): the draft (field name -> value)
    formState,        \* StrategyModal useForm(): [isSubmitted, errors]
    requests,         \* requests in flight (a bag: two equal requests may be pending)
    server,           \* the backend's strategy collection
    inputs,           \* changes of a field and accepted submits the user has made so far
    page,             \* the route rendered: "strategies" or "backtest"
    backtestValues,   \* BacktestPage useForm(): the form values
    backtestLoading,  \* BacktestPage state: loading
    isDeleteModalOpen, \* StrategiesPage state: delete dialog open
    strategyToDelete, \* StrategiesPage state: <<>> or <<instance to delete>>
    toast             \* react-hot-toast: the message shown last, <<>> before the first

vars == <<user, strategies, loading, isModalOpen, currentStrategy,
          formValues, formState, requests, server, inputs,
          page, backtestValues, backtestLoading,
          isDeleteModalOpen, strategyToDelete, toast>>

\* the delete dialog of StrategiesPage
deleteVars == <<isDeleteModalOpen, strategyToDelete>>

\* the route and the state of BacktestPage
backtestVars == <<page, backtestValues, backtestLoading>>

\* the state of StrategiesPage, of its editor and of the strategy collection
strategiesVars == <<strategies, loading, isModalOpen, currentStrategy,
                    formValues, formState, server,
                    isDeleteModalOpen, strategyToDelete>>

-----------------------------------------------------------------------------
(* Bounds of the model.                                                    *)

\* at most this many requests are in flight at once
MaxInFlight == 2
\* the backend holds at most this many strategies
MaxInstances == 3
\* the user changes a field of the editor or has a submit accepted at most
\* this many times in a run
MaxInputs == 2

-----------------------------------------------------------------------------
(* JavaScript values of parameter fields.                                  *)

JsNum(n) == [tag |-> "number", num |-> n, str |-> "", list |-> <<>>]
JsNaN == [tag |-> "NaN", num |-> 0, str |-> "", list |-> <<>>]
JsStr(s) == [tag |-> "string", num |-> 0, str |-> s, list |-> <<>>]
JsList(l) == [tag |-> "array", num |-> 0, str |-> "", list |-> l]
JsNull == [tag |-> "null", num |-> 0, str |-> "", list |-> <<>>]
JsUndefined == [tag |-> "undefined", num |-> 0, str |-> "", list |-> <<>>]
JsFalse == [tag |-> "boolean", num |-> 0, str |-> "", list |-> <<>>]

\* String.prototype.toUpperCase on a sequence of characters
LowerChars == <<"a","b","c","d","e","f","g","h","i","j","k","l","m",
                "n","o","p","q","r","s","t","u","v","w","x","y","z">>
UpperChars == <<"A","B","C","D","E","F","G","H","I","J","K","L","M",
                "N","O","P","Q","R","S","T","U","V","W","X","Y","Z">>
ToggleChar(c) ==
    IF \E i \in DOMAIN LowerChars : LowerChars[i] = c
    THEN UpperChars[CHOOSE i \in DOMAIN LowerChars : LowerChars[i] = c]
    ELSE IF \E i \in DOMAIN UpperChars : UpperChars[i] = c
         THEN LowerChars[CHOOSE i \in DOMAIN UpperChars : UpperChars[i] = c]
         ELSE c
toggleCase(s) == [i \in DOMAIN s |-> ToggleChar(s[i])]

UpperChar(c) ==
    IF \E i \in DOMAIN LowerChars : LowerChars[i] = c
    THEN UpperChars[CHOOSE i \in DOMAIN LowerChars : LowerChars[i] = c]
    ELSE c
toUpperCase(s) == [i \in DOMAIN s |-> UpperChar(s[i])]

-----------------------------------------------------------------------------
(* Schema registry: config/strategies.config.  The catalog is an ordered   *)
(* object; StrategyDefs lists its entries in insertion order.              *)

StrategyDefs ==
    << [key |-> "sma_crossover", name |-> "SMA Crossover", isPremium |-> FALSE,
        parameters |->
          << [name |-> "period", label |-> "Period", type |-> "number",
              defaultValue |-> JsNum(14)] >>],
       [key |-> "news_filter", name |-> "News Filter", isPremium |-> FALSE,
        parameters |->
          << [name |-> "keyword", label |-> "Keyword", type |-> "text",
              defaultValue |-> JsStr("NFP")] >>],
       [key |-> "basket_rotation", name |-> "Basket Rotation", isPremium |-> TRUE,
        parameters |->
          << [name |-> "pairs", label |-> "Pairs", type |-> "multiselect",
              defaultValue |-> JsList(<<"EURUSD", "GBPUSD">>)] >>] >>

\* Object.keys(STRATEGIES_CONFIG)
ConfigKeys == [i \in DOMAIN StrategyDefs |-> StrategyDefs[i].key]

\* STRATEGIES_CONFIG[key] is defined
HasConfig(key) == \E i \in DOMAIN StrategyDefs : StrategyDefs[i].key = key

\* STRATEGIES_CONFIG[key]
STRATEGIES_CONFIG(key) ==
    StrategyDefs[CHOOSE i \in DOMAIN StrategyDefs : StrategyDefs[i].key = key]

\* the names of the parameters of a catalog entry
ParamNames(config) ==
    {config.parameters[i].name : i \in DOMAIN config.parameters}

-----------------------------------------------------------------------------
(* Access context (contexts/AuthContext) and the premium gate.             *)

Plans == {"free", "basic", "premium", "ultimate", "business"}
Roles == {"user", "superuser"}
Subscriptions == {<<>>} \cup {<<[plan |-> p]>> : p \in Plans}
Users == {<<>>} \cup {<<[subscription |-> s, role |-> r]>> :
                         s \in Subscriptions, r \in Roles}

\* a free and a premium account
SampleUsers == {<<[subscription |-> <<[plan |-> "free"]>>, role |-> "user"]>>,
                <<[subscription |-> <<[plan |-> "premium"]>>, role |-> "user"]>>}

\* user?.subscription?.plan, <<>> when undefined
PlanOf(u) ==
    IF u = <<>> THEN <<>>
    ELSE IF u[1].subscription = <<>> THEN <<>>
    ELSE <<u[1].subscription[1].plan>>

\* user?.role, <<>> when undefined
RoleOf(u) == IF u = <<>> THEN <<>> ELSE <<u[1].role>>

HasPremiumAccessMissingBusiness(u) ==
    \/ PlanOf(u) # <<>> /\ PlanOf(u)[1] \in {"premium", "ultimate"}
    \/ RoleOf(u) = <<"superuser">>

HasPremiumAccessOf(u) ==
    \/ PlanOf(u) # <<>> /\ PlanOf(u)[1] \in {"premium", "ultimate", "business"}
    \/ RoleOf(u) = <<"superuser">>

hasPremiumAccess == HasPremiumAccessOf(user)

-----------------------------------------------------------------------------
(* StrategyModal: values derived on every render.                          *)

isEditing == currentStrategy # <<>>

\* watch("strategy_name", default)
selectedStrategyName ==
    IF "strategy_name" \in DOMAIN formValues THEN formValues["strategy_name"]
    ELSE IF isEditing THEN currentStrategy[1].strategy_name
    ELSE ConfigKeys[1]

\* selectedStrategyConfig?.isPremium
isSelectedStrategyPremium ==
    HasConfig(selectedStrategyName) /\ STRATEGIES_CONFIG(selectedStrategyName).isPremium

isCreationDisabledAnyUser == isSelectedStrategyPremium

isCreationDisabled == isSelectedStrategyPremium /\ ~hasPremiumAccess

SubmitDisabledIgnoringMode == isCreationDisabled

SubmitDisabledOnlyWhileEditing == isSelectedStrategyPremium /\ ~hasPremiumAccess /\ isEditing

\* the disabled attribute of the submit button
SubmitDisabled == isCreationDisabled /\ ~isEditing

\* the disabled attribute of a strategy type option
IsOptionDisabled(key) == STRATEGIES_CONFIG(key).isPremium /\ ~hasPremiumAccess

-----------------------------------------------------------------------------
(* react-hook-form as StrategyModal uses it.                               *)

CoreKeys == {"strategy_name", "symbol", "timeframe"}

EURUSD == <<"E", "U", "R", "U", "S", "D">>

\* defaultConfig.parameters.reduce((acc, param) => { acc[param.name] = param.defaultValue; ... }, {})
RECURSIVE ReduceDefaults(_, _, _)
ReduceDefaults(params, i, acc) ==
    IF i > Len(params) THEN acc
    ELSE ReduceDefaults(params, i + 1,
                        (params[i].name :> params[i].defaultValue) @@ acc)

\* the empty object {}
EmptyObject == [k \in {} |-> JsNaN]

DefaultParams(config) == ReduceDefaults(config.parameters, 1, EmptyObject)

\* what an input rendered without a value reports: valueAsNumber of "" is NaN
BlankValue(param) == IF param.type = "number" THEN JsNaN ELSE JsStr("")

\* the value a field gets when it is registered and the form holds none for it:
\* the Controller's defaultValue for a multiselect, the empty input otherwise
RegisteredValue(param) ==
    IF param.type = "multiselect" THEN param.defaultValue ELSE BlankValue(param)

\* renderParameterFields: the fields of the selected type are registered;
\* a field the form already holds a value for keeps it
RegisterFields(values, key) ==
    IF ~HasConfig(key) THEN values
    ELSE LET ps == STRATEGIES_CONFIG(key).parameters
             missing == {i \in DOMAIN ps : ps[i].name \notin DOMAIN values}
         IN [n \in {ps[i].name : i \in missing} |->
               RegisteredValue(ps[CHOOSE i \in missing : ps[i].name = n])] @@ values

EditValuesOverDefaults(strategy) ==
    strategy.parameters @@
    [strategy_name |-> strategy.strategy_name,
     symbol |-> strategy.symbol,
     timeframe |-> strategy.timeframe] @@
    DefaultParams(StrategyDefs[1])

\* reset(...) of the edit branch: the instance's fields, its parameters spread last
EditValues(strategy) ==
    strategy.parameters @@
    [strategy_name |-> strategy.strategy_name,
     symbol |-> strategy.symbol,
     timeframe |-> strategy.timeframe]

CreateValuesLastKey ==
    LET defaultKey == ConfigKeys[Len(ConfigKeys)]
        defaultConfig == STRATEGIES_CONFIG(defaultKey)
    IN DefaultParams(defaultConfig) @@
       [strategy_name |-> defaultKey, symbol |-> EURUSD, timeframe |-> "H1"]

\* reset(...) of the create branch: the first catalog entry's defaults
CreateValues ==
    LET defaultKey == ConfigKeys[1]
        defaultConfig == STRATEGIES_CONFIG(defaultKey)
    IN DefaultParams(defaultConfig) @@
       [strategy_name |-> defaultKey, symbol |-> EURUSD, timeframe |-> "H1"]

ResetValuesMerging(strategy) ==
    (IF strategy # <<>> THEN EditValues(strategy[1]) ELSE CreateValues) @@ formValues

\* the values the reset effect hands to reset() when the modal opens
ResetValues(strategy) ==
    IF strategy # <<>> THEN EditValues(strategy[1]) ELSE CreateValues

\* the form after reset(values) and the render that follows it
FormAfterReset(strategy) ==
    LET values == ResetValues(strategy)
    IN RegisterFields(values, values["strategy_name"])

\* required: a value the form library counts as empty
IsEmptyValue(v) ==
    \/ v.tag \in {"NaN", "null", "undefined"}
    \/ v.tag = "string" /\ v.str = ""
    \/ v.tag = "array" /\ v.list = <<>>

InvalidFieldsSymbolOnly ==
    IF formValues["symbol"] = <<>> THEN {"symbol"} ELSE {}

\* the mounted fields that fail their rules
InvalidFields ==
    (IF formValues["symbol"] = <<>> THEN {"symbol"} ELSE {}) \cup
    (IF HasConfig(selectedStrategyName)
     THEN {n \in ParamNames(STRATEGIES_CONFIG(selectedStrategyName)) :
             IsEmptyValue(formValues[n])}
     ELSE {})

\* after a submit attempt every change of a field validates that field again
Revalidated(name, empty) ==
    IF ~formState.isSubmitted THEN formState
    ELSE [formState EXCEPT
            !.errors = IF empty THEN @ \cup {name} ELSE @ \ {name}]

BuildPayloadDroppingFalsy(data) ==
    LET parameters == [k \in DOMAIN data \ CoreKeys |-> data[k]]
        kept == {k \in DOMAIN parameters :
                   /\ parameters[k].tag \notin {"null", "undefined", "NaN", "boolean"}
                   /\ parameters[k] # JsNum(0)
                   /\ parameters[k] # JsStr("")}
    IN [strategy_name |-> data["strategy_name"],
        symbol |-> toUpperCase(data["symbol"]),
        timeframe |-> data["timeframe"],
        parameters |-> [k \in kept |-> parameters[k]]]

BuildPayloadKeepingCase(data) ==
    LET parameters == [k \in DOMAIN data \ CoreKeys |-> data[k]]
        kept == {k \in DOMAIN parameters :
                   parameters[k].tag \notin {"null", "undefined"}}
    IN [strategy_name |-> data["strategy_name"],
        symbol |-> data["symbol"],
        timeframe |-> data["timeframe"],
        parameters |-> [k \in kept |-> parameters[k]]]

\* StrategyModal.handleFormSubmit: the payload built from the form data
BuildPayload(data) ==
    LET parameters == [k \in DOMAIN data \ CoreKeys |-> data[k]]
        kept == {k \in DOMAIN parameters :
                   parameters[k].tag \notin {"null", "undefined"}}
        cleanedParameters == [k \in kept |-> parameters[k]]
    IN [strategy_name |-> data["strategy_name"],
        symbol |-> toUpperCase(data["symbol"]),
        timeframe |-> data["timeframe"],
        parameters |-> cleanedParameters]

-----------------------------------------------------------------------------
(* What the user can enter, and what the backend holds at the start.       *)

GBPUSD == <<"G", "B", "P", "U", "S", "D">>

\* texts typed into the symbol input
SymbolInputs == {<<>>, <<"g", "b", "p", "u", "s", "d">>, EURUSD}

\* options picked in the timeframe select (a sample of the eight rendered)
TimeframeInputs == {"H1", "D1"}

\* values entered into a parameter field
ParamInputs(param) ==
    IF param.type = "number" THEN {JsNum(7), JsNaN}
    ELSE IF param.type = "multiselect" THEN {JsList(<<>>), JsList(<<"EURUSD">>)}
    ELSE {JsStr(""), JsStr("CPI")}

\* the strategies the backend holds when the page is mounted
InitialServer ==
    << [id |-> 1, strategy_name |-> "basket_rotation", symbol |-> GBPUSD,
        timeframe |-> "D1", parameters |-> ("pairs" :> JsList(<<"EURUSD">>)),
        status |-> "active"],
       [id |-> 2, strategy_name |-> "sma_crossover", symbol |-> EURUSD,
        timeframe |-> "H1",
        parameters |-> ("period" :> JsNum(7) @@ "keyword" :> JsNull),
        status |-> "inactive"] >>

\* values a stored parameter can have, the falsy ones among them
SampleParameterValues ==
    {JsNum(1), JsNum(0), JsStr(""), JsFalse, JsList(<<>>), JsNull, JsUndefined}

\* instances of the first catalog type that carry two more entries a and b in
\* their parameters, as stored by an earlier version or another client
SampleInstances ==
    {[id |-> 1, strategy_name |-> "sma_crossover", symbol |-> sym,
      timeframe |-> "H1",
      parameters |-> ("period" :> JsNum(7) @@ "a" :> va @@ "b" :> vb),
      status |-> "inactive"] :
        sym \in {EURUSD, <<"g", "b", "p", "u", "s", "d">>},
        va \in SampleParameterValues, vb \in SampleParameterValues}

\* error.response?.data?.detail || fallback, for a failed request r
DetailOr(r, fallback) ==
    IF r.data # <<>> THEN r.data[1].detail ELSE fallback

\* a request in flight: reply is "none" until the backend has answered
Request(kind, id, payload) ==
    [kind |-> kind, id |-> id, payload |-> payload, reply |-> "none", data |-> <<>>]

\* the number of requests in flight
InFlight == BagCardinality(requests)

\* the requests in flight with request r answered by the backend
Answered(r, reply, data) ==
    (requests (-) SetToBag({r})) (+)
    SetToBag({[r EXCEPT !.reply = reply, !.data = data,
                        !.payload = IF r.kind = "toggle" THEN @ ELSE <<>>]})

-----------------------------------------------------------------------------
(* BacktestPage: its form.  The parameter inputs are registered under       *)
(* "parameters.<name>", so the form data is {strategy_name, symbol,         *)
(* timeframe, parameters: {<name>: value}}.                                 *)

\* Array.prototype.toString: the elements joined with commas
RECURSIVE JoinComma(_)
JoinComma(l) ==
    IF l = <<>> THEN ""
    ELSE IF Len(l) = 1 THEN l[1]
    ELSE l[1] \o "," \o JoinComma(Tail(l))

\* what <input type={param.type} defaultValue={param.defaultValue}> reports when
\* it is registered: the default as the text of the input, read as a number
\* when valueAsNumber is set
InputDefault(param) ==
    IF param.type = "number"
    THEN (IF param.defaultValue.tag = "number" THEN param.defaultValue ELSE JsNaN)
    ELSE IF param.defaultValue.tag = "array"
         THEN JsStr(JoinComma(param.defaultValue.list))
         ELSE param.defaultValue

\* the parameter inputs of the selected type are registered; a field the form
\* already holds a value for keeps it
BacktestRegisterFields(values, key) ==
    LET ps == STRATEGIES_CONFIG(key).parameters
        missing == {i \in DOMAIN ps : ps[i].name \notin DOMAIN values.parameters}
    IN [values EXCEPT !.parameters =
          [n \in {ps[i].name : i \in missing} |->
             InputDefault(ps[CHOOSE i \in missing : ps[i].name = n])] @@ @]

\* the form after the first render: the first option of the strategy select,
\* the values given to register for symbol and timeframe
BacktestInitialValues ==
    BacktestRegisterFields(
        [strategy_name |-> ConfigKeys[1], symbol |-> EURUSD, timeframe |-> "H1",
         parameters |-> EmptyObject],
        ConfigKeys[1])

\* values typed into a parameter input of the backtest form
BacktestParamInputs(param) ==
    IF param.type = "number" THEN {JsNum(7), JsNaN} ELSE {JsStr(""), JsStr("CPI")}

\* onRunBacktest: const { strategy_name, symbol, timeframe, ...parameters } = data
BacktestPayload(data) ==
    LET parameters == [k \in DOMAIN data \ CoreKeys |-> data[k]]
    IN [strategy_name |-> data.strategy_name,
        symbol |-> data.symbol,
        timeframe |-> data.timeframe,
        parameters |-> parameters]

-----------------------------------------------------------------------------
(* Initial state: the page is mounted, its mount effect has called         *)
(* fetchStrategies, the editor is closed and its form has no values yet.   *)

InitWith(users) ==
    /\ user \in users
    /\ strategies = <<>>
    /\ loading = TRUE
    /\ isModalOpen = FALSE
    /\ currentStrategy = <<>>
    /\ formValues = EmptyObject
    /\ formState = [isSubmitted |-> FALSE, errors |-> {}]
    /\ requests = SetToBag({Request("fetch", 0, <<>>)})
    /\ server = InitialServer
    /\ inputs = 0
    /\ page = "strategies"
    /\ backtestValues = EmptyObject
    /\ backtestLoading = FALSE
    /\ isDeleteModalOpen = FALSE
    /\ strategyToDelete = <<>>
    /\ toast = <<>>

\* the backtest page is mounted: its fields are registered, nothing is requested
InitBacktest ==
    /\ user \in SampleUsers
    /\ strategies = <<>>
    /\ loading = TRUE
    /\ isModalOpen = FALSE
    /\ currentStrategy = <<>>
    /\ formValues = EmptyObject
    /\ formState = [isSubmitted |-> FALSE, errors |-> {}]
    /\ requests = EmptyBag
    /\ server = InitialServer
    /\ inputs = 0
    /\ page = "backtest"
    /\ backtestValues = BacktestInitialValues
    /\ backtestLoading = FALSE
    /\ isDeleteModalOpen = FALSE
    /\ strategyToDelete = <<>>
    /\ toast = <<>>

Init == InitWith(SampleUsers) \/ InitBacktest

\* the editor has been opened on a stored instance, the list is loaded
InitPayload ==
    \E instance \in SampleInstances :
        /\ user \in SampleUsers
        /\ strategies = <<instance>>
        /\ loading = FALSE
        /\ isModalOpen = TRUE
        /\ currentStrategy = <<instance>>
        /\ formValues = FormAfterReset(<<instance>>)
        /\ formState = [isSubmitted |-> FALSE, errors |-> {}]
        /\ requests = EmptyBag
        /\ server = <<instance>>
        /\ inputs = 0
        /\ page = "strategies"
        /\ backtestValues = EmptyObject
        /\ backtestLoading = FALSE
        /\ isDeleteModalOpen = FALSE
        /\ strategyToDelete = <<>>
        /\ toast = <<>>

InitAccess == InitWith(Users)

-----------------------------------------------------------------------------
(* AuthContext: the user logs in or out, the plan or the role changes.     *)

SetUser(u) ==
    /\ u # user
    /\ user' = u
    /\ UNCHANGED <<strategies, loading, isModalOpen, currentStrategy,
                   formValues, formState, requests, server, inputs>>
    /\ UNCHANGED backtestVars
    /\ UNCHANGED deleteVars
    /\ UNCHANGED toast

-----------------------------------------------------------------------------
(* StrategiesPage.handleOpenModal, followed by the modal's reset effect.   *)
(* The page's buttons are behind the dialog while it is open; the cards    *)
(* with their edit buttons are rendered only when the list is loaded.      *)

handleOpenModal(strategy) ==
    /\ page = "strategies"
    /\ ~isModalOpen
    /\ ~isDeleteModalOpen
    /\ currentStrategy' = strategy
    /\ isModalOpen' = TRUE
    /\ formValues' = FormAfterReset(strategy)
    /\ formState' = [isSubmitted |-> FALSE, errors |-> {}]
    /\ UNCHANGED <<user, strategies, loading, requests, server, inputs>>
    /\ UNCHANGED backtestVars
    /\ UNCHANGED deleteVars
    /\ UNCHANGED toast

OpenCreate == handleOpenModal(<<>>)

OpenEdit ==
    /\ ~loading
    /\ \E i \in DOMAIN strategies : handleOpenModal(<<strategies[i]>>)

\* StrategiesPage.handleCloseModal: Cancel, Escape or a click outside
handleCloseModal ==
    /\ isModalOpen
    /\ isModalOpen' = FALSE
    /\ currentStrategy' = <<>>
    /\ UNCHANGED <<user, strategies, loading, formValues, formState,
                   requests, server, inputs>>
    /\ UNCHANGED backtestVars
    /\ UNCHANGED deleteVars
    /\ UNCHANGED toast

-----------------------------------------------------------------------------
(* The user edits the draft.                                               *)

CanSelectTypeWhileEditing(key) == ~IsOptionDisabled(key)

\* the strategy type select is disabled while editing, a premium option is
\* disabled without premium access
CanSelectType(key) == ~isEditing /\ ~IsOptionDisabled(key)

FormAfterSelectResettingAll(key) ==
    RegisterFields([CreateValues EXCEPT !["strategy_name"] = key], key)

\* the form after the strategy type select changed to key: the value of
\* strategy_name changes and the fields of the new type are rendered
FormAfterSelect(key) ==
    RegisterFields([formValues EXCEPT !["strategy_name"] = key], key)

SelectStrategyType(key) ==
    /\ isModalOpen
    /\ inputs < MaxInputs
    /\ inputs' = inputs + 1
    /\ key # selectedStrategyName
    /\ CanSelectType(key)
    /\ formValues' = FormAfterSelect(key)
    /\ UNCHANGED <<user, strategies, loading, isModalOpen, currentStrategy,
                   formState, requests, server>>
    /\ UNCHANGED backtestVars
    /\ UNCHANGED deleteVars
    /\ UNCHANGED toast

ChangeSymbol(s) ==
    /\ isModalOpen
    /\ inputs < MaxInputs
    /\ inputs' = inputs + 1
    /\ s # formValues["symbol"]
    /\ formValues' = [formValues EXCEPT !["symbol"] = s]
    /\ formState' = Revalidated("symbol", s = <<>>)
    /\ UNCHANGED <<user, strategies, loading, isModalOpen, currentStrategy,
                   requests, server>>
    /\ UNCHANGED backtestVars
    /\ UNCHANGED deleteVars
    /\ UNCHANGED toast

ChangeTimeframe(tf) ==
    /\ isModalOpen
    /\ inputs < MaxInputs
    /\ inputs' = inputs + 1
    /\ tf # formValues["timeframe"]
    /\ formValues' = [formValues EXCEPT !["timeframe"] = tf]
    /\ UNCHANGED <<user, strategies, loading, isModalOpen, currentStrategy,
                   formState, requests, server>>
    /\ UNCHANGED backtestVars
    /\ UNCHANGED deleteVars
    /\ UNCHANGED toast

ChangeParameter(i, v) ==
    /\ isModalOpen
    /\ inputs < MaxInputs
    /\ inputs' = inputs + 1
    /\ HasConfig(selectedStrategyName)
    /\ i \in DOMAIN STRATEGIES_CONFIG(selectedStrategyName).parameters
    /\ LET param == STRATEGIES_CONFIG(selectedStrategyName).parameters[i]
       IN /\ v \in ParamInputs(param)
          /\ v # formValues[param.name]
          /\ formValues' = [formValues EXCEPT ![param.name] = v]
          /\ formState' = Revalidated(param.name, IsEmptyValue(v))
    /\ UNCHANGED <<user, strategies, loading, isModalOpen, currentStrategy,
                   requests, server>>
    /\ UNCHANGED backtestVars
    /\ UNCHANGED deleteVars
    /\ UNCHANGED toast

-----------------------------------------------------------------------------
(* Submission: handleSubmit(handleFormSubmit) of the modal, then           *)
(* StrategiesPage.handleFormSubmit.                                        *)

PageRequestAlwaysCreate(payload) == Request("create", 0, <<payload>>)

\* StrategiesPage.handleFormSubmit: the request the page sends for a payload
PageRequest(payload) ==
    IF currentStrategy # <<>>
    THEN Request("update", currentStrategy[1].id, <<payload>>)
    ELSE Request("create", 0, <<payload>>)

\* the form is submitted: validation first, and only a valid form reaches
\* the modal's handleFormSubmit and the page's
SubmitForm ==
    /\ isModalOpen
    /\ ~SubmitDisabled
    /\ IF InvalidFields # {}
       THEN /\ formState' = [isSubmitted |-> TRUE, errors |-> InvalidFields]
            /\ UNCHANGED <<requests, inputs, toast>>
       ELSE /\ InFlight < MaxInFlight
            /\ inputs < MaxInputs
            /\ inputs' = inputs + 1
            /\ formState' = [isSubmitted |-> TRUE, errors |-> {}]
            /\ requests' = requests (+) SetToBag({PageRequest(BuildPayload(formValues))})
            /\ toast' = <<IF currentStrategy # <<>> THEN "Updating strategy..."
                                                    ELSE "Creating strategy...">>
    /\ UNCHANGED <<user, strategies, loading, isModalOpen, currentStrategy,
                   formValues, server>>
    /\ UNCHANGED backtestVars
    /\ UNCHANGED deleteVars

-----------------------------------------------------------------------------
(* The backend (REST collaborators of section 6 of the specification).     *)

ServerIds == {server[j].id : j \in DOMAIN server}

NextId == IF server = <<>> THEN 1
          ELSE 1 + (CHOOSE m \in ServerIds : \A n \in ServerIds : n <= m)

\* POST /strategies: the created instance
CreatedInstance(payload) ==
    [id |-> NextId, strategy_name |-> payload.strategy_name,
     symbol |-> payload.symbol, timeframe |-> payload.timeframe,
     parameters |-> payload.parameters, status |-> "inactive"]

\* PUT /strategies/{id}: the collection with the instance updated
UpdatedServer(id, payload) ==
    [j \in DOMAIN server |->
       IF server[j].id = id
       THEN [server[j] EXCEPT !.strategy_name = payload.strategy_name,
                              !.symbol = payload.symbol,
                              !.timeframe = payload.timeframe,
                              !.parameters = payload.parameters]
       ELSE server[j]]

\* prev.map(s => s.id === id ? { ...s, status } : s)
ToggledList(list, id, status) ==
    [j \in DOMAIN list |->
       IF list[j].id = id THEN [list[j] EXCEPT !.status = status] ELSE list[j]]

RECURSIVE WithoutInstance(_, _)
\* prev.filter(s => s.id !== id)
WithoutInstance(list, id) ==
    IF list = <<>> THEN <<>>
    ELSE IF Head(list).id = id THEN WithoutInstance(Tail(list), id)
         ELSE <<Head(list)>> \o WithoutInstance(Tail(list), id)

\* the backend answers request r with success
ServerAccept(r) ==
    /\ r.reply = "none"
    /\ CASE r.kind = "fetch" ->
              /\ requests' = Answered(r, "ok", server)
              /\ UNCHANGED server
         [] r.kind = "create" ->
              /\ Len(server) < MaxInstances
              /\ server' = Append(server, CreatedInstance(r.payload[1]))
              /\ requests' = Answered(r, "ok", <<>>)
         [] r.kind = "update" ->
              /\ r.id \in ServerIds
              /\ server' = UpdatedServer(r.id, r.payload[1])
              /\ requests' = Answered(r, "ok", <<>>)
         [] r.kind = "toggle" ->
              /\ r.id \in ServerIds
              /\ server' = ToggledList(server, r.id, r.payload[1].status)
              /\ requests' = Answered(r, "ok", <<>>)
         [] r.kind = "delete" ->
              /\ r.id \in ServerIds
              /\ server' = WithoutInstance(server, r.id)
              /\ requests' = Answered(r, "ok", <<>>)
         [] r.kind = "backtest" ->
              /\ requests' = Answered(r, "ok", <<[message |-> "Backtest started."]>>)
              /\ UNCHANGED server
    /\ UNCHANGED <<user, strategies, loading, isModalOpen, currentStrategy,
                   formValues, formState, inputs>>
    /\ UNCHANGED backtestVars
    /\ UNCHANGED deleteVars
    /\ UNCHANGED toast

\* the backend (or the network) fails request r
ServerReject(r) ==
    /\ r.reply = "none"
    /\ requests' = Answered(r, "error", <<>>)
    /\ UNCHANGED <<user, strategies, loading, isModalOpen, currentStrategy,
                   formValues, formState, server, inputs>>
    /\ UNCHANGED backtestVars
    /\ UNCHANGED deleteVars
    /\ UNCHANGED toast

\* the backend fails request r with a response that carries a detail
ServerRejectWithDetail(r) ==
    /\ r.reply = "none"
    /\ requests' = Answered(r, "error", <<[detail |-> "Symbol already exists"]>>)
    /\ UNCHANGED <<user, strategies, loading, isModalOpen, currentStrategy,
                   formValues, formState, server, inputs>>
    /\ UNCHANGED backtestVars
    /\ UNCHANGED deleteVars
    /\ UNCHANGED toast

-----------------------------------------------------------------------------
(* Continuations on the UI event loop.                                     *)

FetchDoneKeepingList(r) ==
    /\ r.kind = "fetch"
    /\ r.reply # "none"
    /\ strategies' = strategies
    /\ toast' = IF r.reply = "ok" THEN toast ELSE <<"Failed to fetch strategies.">>
    /\ loading' = FALSE
    /\ requests' = requests (-) SetToBag({r})
    /\ UNCHANGED <<user, isModalOpen, currentStrategy, formValues, formState,
                   server, inputs>>
    /\ UNCHANGED backtestVars
    /\ UNCHANGED deleteVars

FetchDoneClearingOnError(r) ==
    /\ r.kind = "fetch"
    /\ r.reply # "none"
    /\ strategies' = IF r.reply = "ok" THEN r.data ELSE <<>>
    /\ toast' = IF r.reply = "ok" THEN toast ELSE <<"Failed to fetch strategies.">>
    /\ loading' = FALSE
    /\ requests' = requests (-) SetToBag({r})
    /\ UNCHANGED <<user, isModalOpen, currentStrategy, formValues, formState,
                   server, inputs>>
    /\ UNCHANGED backtestVars
    /\ UNCHANGED deleteVars

\* fetchStrategies after its await: try / catch / finally
FetchDone(r) ==
    /\ r.kind = "fetch"
    /\ r.reply # "none"
    /\ strategies' = IF r.reply = "ok" THEN r.data ELSE strategies
    /\ toast' = IF r.reply = "ok" THEN toast ELSE <<"Failed to fetch strategies.">>
    /\ loading' = FALSE
    /\ requests' = requests (-) SetToBag({r})
    /\ UNCHANGED <<user, isModalOpen, currentStrategy, formValues, formState,
                   server, inputs>>
    /\ UNCHANGED backtestVars
    /\ UNCHANGED deleteVars

SubmitSucceededWithoutRefresh(r) ==
    /\ r.kind \in {"create", "update"}
    /\ r.reply = "ok"
    /\ requests' = requests (-) SetToBag({r})
    /\ isModalOpen' = FALSE
    /\ currentStrategy' = <<>>
    /\ toast' = <<IF r.kind = "update" THEN "Strategy successfully updated!"
                                        ELSE "Strategy successfully created!">>
    /\ UNCHANGED <<user, strategies, loading, formValues, formState, server, inputs>>
    /\ UNCHANGED backtestVars
    /\ UNCHANGED deleteVars

\* toast.promise success of handleFormSubmit: fetchStrategies(), handleCloseModal()
SubmitSucceeded(r) ==
    /\ r.kind \in {"create", "update"}
    /\ r.reply = "ok"
    /\ loading' = TRUE
    /\ requests' = (requests (-) SetToBag({r})) (+) SetToBag({Request("fetch", 0, <<>>)})
    /\ toast' = <<IF r.kind = "update" THEN "Strategy successfully updated!"
                                        ELSE "Strategy successfully created!">>
    /\ isModalOpen' = FALSE
    /\ currentStrategy' = <<>>
    /\ UNCHANGED <<user, strategies, formValues, formState, server, inputs>>
    /\ UNCHANGED backtestVars
    /\ UNCHANGED deleteVars

SubmitFailedClosing(r) ==
    /\ r.kind \in {"create", "update"}
    /\ r.reply = "error"
    /\ requests' = requests (-) SetToBag({r})
    /\ isModalOpen' = FALSE
    /\ currentStrategy' = <<>>
    /\ toast' = <<DetailOr(r, "An error occurred.")>>
    /\ UNCHANGED <<user, strategies, loading, formValues, formState, server, inputs>>
    /\ UNCHANGED backtestVars
    /\ UNCHANGED deleteVars

\* toast.promise error of handleFormSubmit: only the message is shown
SubmitFailed(r) ==
    /\ r.kind \in {"create", "update"}
    /\ r.reply = "error"
    /\ requests' = requests (-) SetToBag({r})
    /\ toast' = <<DetailOr(r, "An error occurred.")>>
    /\ UNCHANGED <<user, strategies, loading, isModalOpen, currentStrategy,
                   formValues, formState, server, inputs>>
    /\ UNCHANGED backtestVars
    /\ UNCHANGED deleteVars

-----------------------------------------------------------------------------
(* StrategiesPage: the cards of the list (rendered when the list is loaded *)
(* and not empty) and the delete dialog.  While a dialog is open the page  *)
(* is behind it.                                                           *)

\* a card of the list can be clicked
CardsUsable == page = "strategies" /\ ~loading /\ ~isModalOpen /\ ~isDeleteModalOpen

\* StrategiesPage.handleToggleStatus up to its await: PATCH .../status?status=
handleToggleStatus(strategy, newStatus) ==
    /\ CardsUsable
    /\ inputs < MaxInputs
    /\ inputs' = inputs + 1
    /\ InFlight < MaxInFlight
    /\ LET status == IF newStatus THEN "active" ELSE "inactive"
       IN requests' = requests (+)
             SetToBag({Request("toggle", strategy.id, <<[status |-> status]>>)})
    /\ UNCHANGED <<user, strategies, loading, isModalOpen, currentStrategy,
                   formValues, formState, server>>
    /\ UNCHANGED backtestVars
    /\ UNCHANGED deleteVars
    /\ UNCHANGED toast

\* the switch of a card asks for the status the card does not show
ToggleCard ==
    \E i \in DOMAIN strategies :
        handleToggleStatus(strategies[i], strategies[i].status # "active")

ToggleDoneOptimistic(r) ==
    /\ r.kind = "toggle"
    /\ r.reply # "none"
    /\ strategies' = ToggledList(strategies, r.id, r.payload[1].status)
    /\ toast' = <<IF r.reply = "ok"
                   THEN "Strategy set to " \o r.payload[1].status \o "."
                   ELSE DetailOr(r, "Failed to update status.")>>
    /\ requests' = requests (-) SetToBag({r})
    /\ UNCHANGED <<user, loading, isModalOpen, currentStrategy,
                   formValues, formState, server, inputs>>
    /\ UNCHANGED backtestVars
    /\ UNCHANGED deleteVars

\* handleToggleStatus after its await: try / catch
ToggleDone(r) ==
    /\ r.kind = "toggle"
    /\ r.reply # "none"
    /\ strategies' = IF r.reply = "ok"
                     THEN ToggledList(strategies, r.id, r.payload[1].status)
                     ELSE strategies
    /\ toast' = <<IF r.reply = "ok"
                   THEN "Strategy set to " \o r.payload[1].status \o "."
                   ELSE DetailOr(r, "Failed to update status.")>>
    /\ requests' = requests (-) SetToBag({r})
    /\ UNCHANGED <<user, loading, isModalOpen, currentStrategy,
                   formValues, formState, server, inputs>>
    /\ UNCHANGED backtestVars
    /\ UNCHANGED deleteVars

handleOpenDeleteModal(strategy) ==
    /\ CardsUsable
    /\ strategyToDelete' = <<strategy>>
    /\ isDeleteModalOpen' = TRUE
    /\ UNCHANGED <<user, strategies, loading, isModalOpen, currentStrategy,
                   formValues, formState, requests, server, inputs>>
    /\ UNCHANGED backtestVars
    /\ UNCHANGED toast

OpenDelete == \E i \in DOMAIN strategies : handleOpenDeleteModal(strategies[i])

handleCloseDeleteModalKeepingTarget ==
    /\ isDeleteModalOpen
    /\ isDeleteModalOpen' = FALSE
    /\ UNCHANGED <<user, strategies, loading, isModalOpen, currentStrategy,
                   formValues, formState, requests, server, inputs>>
    /\ UNCHANGED strategyToDelete
    /\ UNCHANGED backtestVars
    /\ UNCHANGED toast

\* StrategiesPage.handleCloseDeleteModal: Cancel, Escape or a click outside
handleCloseDeleteModal ==
    /\ isDeleteModalOpen
    /\ isDeleteModalOpen' = FALSE
    /\ strategyToDelete' = <<>>
    /\ UNCHANGED <<user, strategies, loading, isModalOpen, currentStrategy,
                   formValues, formState, requests, server, inputs>>
    /\ UNCHANGED backtestVars
    /\ UNCHANGED toast

\* StrategiesPage.handleDeleteConfirm up to its await; the Confirm button can
\* still be pressed while the closed dialog fades out, when the target is null
handleDeleteConfirm ==
    /\ page = "strategies"
    /\ IF strategyToDelete = <<>>
       THEN UNCHANGED <<requests, inputs>>
       ELSE /\ inputs < MaxInputs
            /\ inputs' = inputs + 1
            /\ InFlight < MaxInFlight
            /\ requests' = requests (+)
                  SetToBag({Request("delete", strategyToDelete[1].id, <<>>)})
    /\ UNCHANGED <<user, strategies, loading, isModalOpen, currentStrategy,
                   formValues, formState, server>>
    /\ UNCHANGED backtestVars
    /\ UNCHANGED deleteVars
    /\ UNCHANGED toast

DeleteDoneRemovingShownTarget(r) ==
    /\ r.kind = "delete"
    /\ r.reply # "none"
    /\ strategies' = IF r.reply = "ok" /\ strategyToDelete # <<>>
                     THEN WithoutInstance(strategies, strategyToDelete[1].id)
                     ELSE strategies
    /\ toast' = <<IF r.reply = "ok" THEN "Strategy deleted successfully."
                   ELSE "Failed to delete strategy.">>
    /\ isDeleteModalOpen' = FALSE
    /\ strategyToDelete' = <<>>
    /\ requests' = requests (-) SetToBag({r})
    /\ UNCHANGED <<user, loading, isModalOpen, currentStrategy,
                   formValues, formState, server, inputs>>
    /\ UNCHANGED backtestVars

\* handleDeleteConfirm after its await: try / catch / finally
DeleteDone(r) ==
    /\ r.kind = "delete"
    /\ r.reply # "none"
    /\ strategies' = IF r.reply = "ok" THEN WithoutInstance(strategies, r.id)
                     ELSE strategies
    /\ toast' = <<IF r.reply = "ok" THEN "Strategy deleted successfully."
                   ELSE "Failed to delete strategy.">>
    /\ isDeleteModalOpen' = FALSE
    /\ strategyToDelete' = <<>>
    /\ requests' = requests (-) SetToBag({r})
    /\ UNCHANGED <<user, loading, isModalOpen, currentStrategy,
                   formValues, formState, server, inputs>>
    /\ UNCHANGED backtestVars

-----------------------------------------------------------------------------
(* BacktestPage: the user edits the form and runs a backtest.              *)

BacktestSelectStrategy(key) ==
    /\ page = "backtest"
    /\ inputs < MaxInputs
    /\ inputs' = inputs + 1
    /\ key # backtestValues.strategy_name
    /\ backtestValues' =
          BacktestRegisterFields([backtestValues EXCEPT !.strategy_name = key], key)
    /\ UNCHANGED <<user, requests, page, backtestLoading>>
    /\ UNCHANGED strategiesVars
    /\ UNCHANGED toast

BacktestChangeSymbol(s) ==
    /\ page = "backtest"
    /\ inputs < MaxInputs
    /\ inputs' = inputs + 1
    /\ s # backtestValues.symbol
    /\ backtestValues' = [backtestValues EXCEPT !.symbol = s]
    /\ UNCHANGED <<user, requests, page, backtestLoading>>
    /\ UNCHANGED strategiesVars
    /\ UNCHANGED toast

BacktestChangeTimeframe(tf) ==
    /\ page = "backtest"
    /\ inputs < MaxInputs
    /\ inputs' = inputs + 1
    /\ tf # backtestValues.timeframe
    /\ backtestValues' = [backtestValues EXCEPT !.timeframe = tf]
    /\ UNCHANGED <<user, requests, page, backtestLoading>>
    /\ UNCHANGED strategiesVars
    /\ UNCHANGED toast

BacktestChangeParameter(i, v) ==
    /\ page = "backtest"
    /\ inputs < MaxInputs
    /\ inputs' = inputs + 1
    /\ i \in DOMAIN STRATEGIES_CONFIG(backtestValues.strategy_name).parameters
    /\ LET param == STRATEGIES_CONFIG(backtestValues.strategy_name).parameters[i]
       IN /\ v \in BacktestParamInputs(param)
          /\ v # backtestValues.parameters[param.name]
          /\ backtestValues' = [backtestValues EXCEPT !.parameters[param.name] = v]
    /\ UNCHANGED <<user, requests, page, backtestLoading>>
    /\ UNCHANGED strategiesVars
    /\ UNCHANGED toast

\* handleSubmit(onRunBacktest): the button is disabled while loading, the
\* symbol is required; then setLoading(true) and POST /backtest
RunBacktest ==
    /\ page = "backtest"
    /\ ~backtestLoading
    /\ backtestValues.symbol # <<>>
    /\ InFlight < MaxInFlight
    /\ backtestLoading' = TRUE
    /\ requests' = requests (+)
          SetToBag({Request("backtest", 0, <<BacktestPayload(backtestValues)>>)})
    /\ toast' = <<"Starting backtest... This may take a minute.">>
    /\ UNCHANGED <<user, inputs, page, backtestValues>>
    /\ UNCHANGED strategiesVars

BacktestDoneWithoutFinally(r) ==
    /\ r.kind = "backtest"
    /\ r.reply # "none"
    /\ toast' = <<IF r.reply = "ok" THEN r.data[1].message
                   ELSE DetailOr(r, "Backtest failed to start.")>>
    /\ backtestLoading' = IF r.reply = "ok" THEN FALSE ELSE backtestLoading
    /\ requests' = requests (-) SetToBag({r})
    /\ UNCHANGED <<user, inputs, page, backtestValues>>
    /\ UNCHANGED strategiesVars

\* onRunBacktest after its await: toast, finally setLoading(false)
BacktestDone(r) ==
    /\ r.kind = "backtest"
    /\ r.reply # "none"
    /\ toast' = <<IF r.reply = "ok" THEN r.data[1].message
                   ELSE DetailOr(r, "Backtest failed to start.")>>
    /\ backtestLoading' = FALSE
    /\ requests' = requests (-) SetToBag({r})
    /\ UNCHANGED <<user, inputs, page, backtestValues>>
    /\ UNCHANGED strategiesVars

-----------------------------------------------------------------------------
(* The specifications.                                                     *)

\* every value a parameter field can be given
AllParamInputs ==
    UNION {ParamInputs([type |-> t]) : t \in {"number", "multiselect", "text"}}

\* every index of a parameter in a catalog entry
ParamIndexes == UNION {DOMAIN StrategyDefs[k].parameters : k \in DOMAIN StrategyDefs}

\* the editor is opened and closed, the strategy type is selected
ModalNext ==
    \/ OpenCreate
    \/ OpenEdit
    \/ handleCloseModal
    \/ \E i \in DOMAIN ConfigKeys : SelectStrategyType(ConfigKeys[i])

\* the user types into the fields of the editor
FieldNext ==
    \/ \E s \in SymbolInputs : ChangeSymbol(s)
    \/ \E tf \in TimeframeInputs : ChangeTimeframe(tf)
    \/ \E i \in ParamIndexes : \E v \in AllParamInputs : ChangeParameter(i, v)

\* the form is submitted and the request completes
SubmitNext ==
    \/ SubmitForm
    \/ \E r \in BagToSet(requests) : SubmitSucceeded(r)
    \/ \E r \in BagToSet(requests) : SubmitFailed(r)

\* the backend answers, a list fetch completes
NetworkNext ==
    \/ \E r \in BagToSet(requests) : ServerAccept(r)
    \/ \E r \in BagToSet(requests) : ServerReject(r)
    \/ \E r \in BagToSet(requests) : FetchDone(r)

\* the backtest form is edited and run
BacktestNext ==
    \/ \E i \in DOMAIN ConfigKeys : BacktestSelectStrategy(ConfigKeys[i])
    \/ \E s \in SymbolInputs : BacktestChangeSymbol(s)
    \/ \E tf \in TimeframeInputs : BacktestChangeTimeframe(tf)
    \/ \E i \in ParamIndexes : \E v \in AllParamInputs : BacktestChangeParameter(i, v)
    \/ RunBacktest
    \/ \E r \in BagToSet(requests) : BacktestDone(r)

Next ==
    \/ \E u \in SampleUsers : SetUser(u)
    \/ ModalNext
    \/ FieldNext
    \/ SubmitNext
    \/ NetworkNext
    \/ BacktestNext

\* the strategies page with its editor and the backtest page, for a free and
\* a premium account
Spec == Init /\ [][Next]_vars

\* the cards and the delete dialog are used, their requests complete
ListNext ==
    \/ ToggleCard
    \/ OpenDelete
    \/ handleCloseDeleteModal
    \/ handleDeleteConfirm
    \/ \E r \in BagToSet(requests) : ToggleDone(r)
    \/ \E r \in BagToSet(requests) : DeleteDone(r)

\* the strategies page for a premium account
InitList ==
    InitWith({<<[subscription |-> <<[plan |-> "premium"]>>, role |-> "user"]>>})

NextList ==
    \/ ModalNext
    \/ SubmitNext
    \/ NetworkNext
    \/ ListNext
    \/ BacktestNext

\* the strategies page with its cards, its dialogs and its editor, and the
\* backtest page
SpecList == (InitList \/ InitBacktest) /\ [][NextList]_vars

NextMessages ==
    \/ NextList
    \/ \E r \in BagToSet(requests) : ServerRejectWithDetail(r)

\* the two pages with a backend whose error responses may carry a detail
SpecMessages == (InitList \/ InitBacktest) /\ [][NextMessages]_vars

\* the backend answers a backtest request, with success or with an error
BacktestAnswered ==
    \E r \in BagToSet(requests) :
        /\ r.kind = "backtest"
        /\ ServerAccept(r) \/ ServerReject(r) \/ ServerRejectWithDetail(r)

\* the continuation of an answered backtest request runs
BacktestCompleted == \E r \in BagToSet(requests) : BacktestDone(r)

NextBacktest ==
    \/ BacktestNext
    \/ BacktestAnswered

\* the backtest page; every request is answered, by a response or by a network
\* error, and the continuation of a settled request runs
SpecBacktest ==
    /\ InitBacktest
    /\ [][NextBacktest]_vars
    /\ WF_vars(BacktestAnswered)
    /\ WF_vars(BacktestCompleted)

NextPayload ==
    \/ \E s \in SymbolInputs : ChangeSymbol(s)
    \/ SubmitNext
    \/ NetworkNext

\* the payload the editor builds, for instances with every kind of value
SpecPayload == InitPayload /\ [][NextPayload]_vars

NextAccess ==
    \/ \E u \in Users : SetUser(u)
    \/ ModalNext
    \/ NetworkNext

\* the gate of the editor under every access context
SpecAccess == InitAccess /\ [][NextAccess]_vars

-----------------------------------------------------------------------------
(* Properties of the premium gate.                                         *)

\* the plan of the access context is one of the premium tiers
OnPremiumPlan ==
    /\ user # <<>>
    /\ user[1].subscription # <<>>
    /\ user[1].subscription[1].plan \in {"premium", "ultimate", "business"}

IsSuperuser == user # <<>> /\ user[1].role = "superuser"

\* the catalog entry of the type the draft selects is premium
DraftTypeIsPremium ==
    \E i \in DOMAIN StrategyDefs :
        /\ StrategyDefs[i].key = formValues["strategy_name"]
        /\ StrategyDefs[i].isPremium

OpenInCreateMode == isModalOpen /\ currentStrategy = <<>>

OpenInEditMode == isModalOpen /\ currentStrategy # <<>>

\* C1: in create mode the submit control is disabled exactly when the selected
\* type is premium and the access context has no premium access (so it is
\* enabled for every non-premium type, and enabled again once the selection
\* has moved from a premium to a non-premium type).
C1_CreateGate ==
    OpenInCreateMode =>
        (SubmitDisabled <=> (DraftTypeIsPremium /\ ~(OnPremiumPlan \/ IsSuperuser)))

\* a premium type is selected in create mode by a user without premium access
C1_Witness ==
    /\ OpenInCreateMode
    /\ DraftTypeIsPremium
    /\ ~(OnPremiumPlan \/ IsSuperuser)
    /\ SubmitDisabled

\* the create requests sent in this step
NewCreateRequests ==
    {r \in BagToSet(requests') :
        /\ r.kind = "create"
        /\ r.reply = "none"
        /\ CopiesIn(r, requests') > CopiesIn(r, requests)}

\* C2: no create request (POST /strategies) is ever sent for a premium type
\* while the user has no premium access.
C2_NoDisallowedCreate ==
    [][\A r \in NewCreateRequests :
          STRATEGIES_CONFIG(r.payload[1].strategy_name).isPremium
              => (OnPremiumPlan \/ IsSuperuser)]_vars

\* a create request for a premium type is in flight
C2_Witness ==
    \E r \in BagToSet(requests) :
        /\ r.kind = "create"
        /\ r.reply = "none"
        /\ STRATEGIES_CONFIG(r.payload[1].strategy_name).isPremium

\* C3: in edit mode the submit control is never disabled by the gate, whatever
\* the access context and the type of the instance.
C3_EditNeverGated == OpenInEditMode => ~SubmitDisabled

\* a premium instance is being edited by a user without premium access
C3_Witness ==
    /\ OpenInEditMode
    /\ DraftTypeIsPremium
    /\ ~(OnPremiumPlan \/ IsSuperuser)

\* C4: hasPremiumAccess holds exactly for the plans premium, ultimate and
\* business and for the role superuser; it is false for a missing user, a
\* missing subscription and the plans free and basic when the role is not
\* superuser.
C4_PremiumAccess ==
    /\ hasPremiumAccess <=> (OnPremiumPlan \/ IsSuperuser)
    /\ ( /\ \/ user = <<>>
            \/ user[1].subscription = <<>>
            \/ user[1].subscription[1].plan \in {"free", "basic"}
         /\ ~IsSuperuser ) => ~hasPremiumAccess

\* a business plan without the superuser role has premium access
C4_Witness ==
    /\ user # <<>>
    /\ user[1].subscription = <<[plan |-> "business"]>>
    /\ user[1].role = "user"
    /\ hasPremiumAccess

-----------------------------------------------------------------------------
(* Properties of the draft.                                                *)

\* the parameter mapping of a draft: its entries other than the core fields
DraftParameters(values) == [k \in DOMAIN values \ CoreKeys |-> values[k]]

\* the default mapping {name -> defaultValue} of a catalog entry
DefaultMapping(def) ==
    [n \in {def.parameters[i].name : i \in DOMAIN def.parameters} |->
       def.parameters[CHOOSE i \in DOMAIN def.parameters :
                         def.parameters[i].name = n].defaultValue]

DefOf(key) == StrategyDefs[CHOOSE i \in DOMAIN StrategyDefs : StrategyDefs[i].key = key]

\* a step that changes the selected type while the editor stays open in create mode
TypeSwitchStep ==
    /\ OpenInCreateMode
    /\ isModalOpen' /\ currentStrategy' = <<>>
    /\ formValues'["strategy_name"] # formValues["strategy_name"]

\* C5: after a switch of the type from A to B in create mode the parameter
\* mapping of the draft is exactly B's default mapping.
C5_SwitchResetsParameters ==
    [][TypeSwitchStep =>
         DraftParameters(formValues') = DefaultMapping(DefOf(formValues'["strategy_name"]))]_vars

\* C6: a switch of the type in create mode leaves the symbol and the
\* timeframe of the draft as entered.
C6_SwitchKeepsSymbolTimeframe ==
    [][TypeSwitchStep =>
         /\ formValues'["symbol"] = formValues["symbol"]
         /\ formValues'["timeframe"] = formValues["timeframe"]]_vars

\* the type has been switched in a create session whose symbol is not the
\* platform default
C6_Witness ==
    /\ OpenInCreateMode
    /\ formValues["strategy_name"] # StrategyDefs[1].key
    /\ "period" \in DOMAIN formValues
    /\ formValues["symbol"] # EURUSD

\* a step that opens the editor
OpenStep == ~isModalOpen /\ isModalOpen'

\* C7: opening in create mode yields the first catalog type, its default
\* mapping, the symbol EURUSD and the timeframe H1, whatever the draft held.
C7_CreateOpenDefaults ==
    [][(OpenStep /\ currentStrategy' = <<>>) =>
         /\ formValues'["strategy_name"] = StrategyDefs[1].key
         /\ formValues'["symbol"] = <<"E", "U", "R", "U", "S", "D">>
         /\ formValues'["timeframe"] = "H1"
         /\ DraftParameters(formValues') = DefaultMapping(StrategyDefs[1])]_vars

\* the editor is open in create mode on the default draft while the update
\* request of an earlier edit session is still in flight
C7_Witness ==
    /\ OpenInCreateMode
    /\ formValues["strategy_name"] = StrategyDefs[1].key
    /\ DraftParameters(formValues) = DefaultMapping(StrategyDefs[1])
    /\ \E r \in BagToSet(requests) : r.kind = "update" /\ r.reply = "none"

FreshDraft(strategy) ==
    IF strategy = <<>>
    THEN DefaultMapping(StrategyDefs[1]) @@
         [strategy_name |-> StrategyDefs[1].key, symbol |-> EURUSD, timeframe |-> "H1"]
    ELSE strategy[1].parameters @@
         [strategy_name |-> strategy[1].strategy_name,
          symbol |-> strategy[1].symbol,
          timeframe |-> strategy[1].timeframe]

\* C9: every (re)open replaces the draft entirely: the draft after the open
\* is a function of what is opened, with no key or value of the draft the
\* form held before, and no error of the earlier session.
C9_OpenReplacesDraft ==
    [][OpenStep =>
         /\ formValues' = FreshDraft(currentStrategy')
         /\ formState'.errors = {}]_vars

\* the editor has been reopened on an instance while the create request of an
\* earlier session, which had another symbol and another type, is in flight
C9_Witness ==
    /\ OpenInEditMode
    /\ formValues = FreshDraft(currentStrategy)
    /\ \E r \in BagToSet(requests) :
          /\ r.kind = "create"
          /\ r.reply = "none"
          /\ r.payload[1].symbol # formValues["symbol"]
          /\ r.payload[1].strategy_name # formValues["strategy_name"]

\* C10: while the editor is open in edit mode the selected type is the type
\* of the instance it was opened with.
C10_EditTypeLocked ==
    OpenInEditMode => formValues["strategy_name"] = currentStrategy[1].strategy_name

\* an edit session in which the user, who may select every type, has changed
\* the symbol
C10_Witness ==
    /\ OpenInEditMode
    /\ OnPremiumPlan
    /\ formValues["symbol"] # currentStrategy[1].symbol

-----------------------------------------------------------------------------
(* Properties of validation and submission.                                *)

\* the create and update requests sent in this step
NewSubmitRequests ==
    {r \in BagToSet(requests') :
        /\ r.kind \in {"create", "update"}
        /\ r.reply = "none"
        /\ CopiesIn(r, requests') > CopiesIn(r, requests)}

\* a value of a field of the given kind that counts as left blank
IsBlank(kind, v) ==
    \/ v.tag \in {"null", "undefined"}
    \/ kind = "number" /\ v.tag = "NaN"
    \/ kind = "text" /\ v.tag = "string" /\ v.str = ""
    \/ kind = "multiselect" /\ v.tag = "array" /\ Len(v.list) = 0

\* the fields of the draft that fail validation: the symbol when empty, and
\* the parameters of the selected type whose value is blank
FailingFields ==
    LET def == DefOf(formValues["strategy_name"])
    IN {f \in {"symbol"} : Len(formValues["symbol"]) = 0} \cup
       {def.parameters[i].name : i \in
          {j \in DOMAIN def.parameters :
             IsBlank(def.parameters[j].type, formValues[def.parameters[j].name])}}

\* a step in which the open editor handles a submit: the draft stays, the
\* form state records the attempt or a request is sent
SubmitAttemptStep ==
    /\ isModalOpen
    /\ formValues' = formValues
    /\ formState'.isSubmitted
    /\ formState' # formState \/ NewSubmitRequests # {}

\* C11: a submit of a draft with a failing field (empty symbol, blank text or
\* numeric parameter, empty multi-valued choice) sends no request and records
\* an error for every failing field; a create or update request is sent only
\* for a draft in which every field passes.
C11_ValidationBlocksSubmit ==
    [][/\ NewSubmitRequests # {} => FailingFields = {}
       /\ (SubmitAttemptStep /\ FailingFields # {}) =>
             /\ FailingFields \subseteq formState'.errors
             /\ requests' = requests]_vars

\* a submit of a draft whose numeric parameter is blank has been refused: the
\* error is recorded on the field and no create or update request exists
C11_Witness ==
    /\ isModalOpen
    /\ formState.isSubmitted
    /\ formValues["strategy_name"] = "sma_crossover"
    /\ formValues["period"] = JsNaN
    /\ "period" \in formState.errors
    /\ \A r \in BagToSet(requests) : r.kind \notin {"create", "update"}

\* the create and update requests whose completion has not run yet
PendingSubmissions ==
    {r \in BagToSet(requests) : r.kind \in {"create", "update"}}

\* C12: at most one submission of the editor is in flight: no create or update
\* request is sent between a validated submit and the completion (success or
\* failure) of its request.
C12_OneSubmissionInFlight ==
    [][NewSubmitRequests # {} => PendingSubmissions = {}]_vars

\* the requests sent in this step
NewRequests ==
    {r \in BagToSet(requests') :
        /\ r.reply = "none"
        /\ CopiesIn(r, requests') > CopiesIn(r, requests)}

\* C13: a validated submit of the editor sends exactly one request: a create
\* request when the editor was opened without an instance, otherwise an update
\* request with the id of the instance it was opened with; the backtest page
\* sends backtest requests only.
C13_Routing ==
    [][/\ \A r \in NewSubmitRequests :
             IF currentStrategy = <<>>
             THEN r.kind = "create"
             ELSE r.kind = "update" /\ r.id = currentStrategy[1].id
       /\ (SubmitAttemptStep /\ FailingFields = {}) => Cardinality(NewSubmitRequests) = 1
       /\ page = "backtest" => \A r \in NewRequests : r.kind = "backtest"
       /\ page = "strategies" => \A r \in NewRequests : r.kind # "backtest"]_vars

\* a create request of the open create session is in flight together with the
\* update request an earlier edit session sent for its instance
C13_Witness ==
    /\ OpenInCreateMode
    /\ \E r \in BagToSet(requests) : r.kind = "create" /\ r.reply = "none"
    /\ \E r \in BagToSet(requests) :
          r.kind = "update" /\ r.reply = "none" /\ r.id = 2

\* the lower-case letters
LowerCaseLetters == {LowerChars[i] : i \in DOMAIN LowerChars}

\* u is the string s with every lower-case letter replaced by its capital
IsUpperCased(s, u) ==
    /\ Len(u) = Len(s)
    /\ \A i \in DOMAIN s :
          IF s[i] \in LowerCaseLetters
          THEN \E k \in DOMAIN LowerChars : LowerChars[k] = s[i] /\ UpperChars[k] = u[i]
          ELSE u[i] = s[i]

\* C14: the payload of every create or update request has the symbol of the
\* draft upper-cased, and the strategy_name and the timeframe of the draft
\* unchanged.
C14_SymbolUpperCased ==
    [][\A r \in NewSubmitRequests :
          /\ IsUpperCased(formValues["symbol"], r.payload[1].symbol)
          /\ r.payload[1].strategy_name = formValues["strategy_name"]
          /\ r.payload[1].timeframe = formValues["timeframe"]]_vars

\* a request is in flight for a draft whose symbol was typed in lower case;
\* its payload holds the symbol in capitals
C14_Witness ==
    /\ isModalOpen
    /\ formValues["symbol"] = <<"g", "b", "p", "u", "s", "d">>
    /\ \E r \in PendingSubmissions :
          /\ r.reply = "none"
          /\ r.payload[1].symbol = <<"G", "B", "P", "U", "S", "D">>

\* the entries of the draft beside the three core fields whose value is
\* neither null nor undefined
PresentParameters ==
    {k \in DOMAIN formValues \ {"strategy_name", "symbol", "timeframe"} :
        formValues[k] # JsNull /\ formValues[k] # JsUndefined}

\* C15: the parameters of the payload are exactly the non-core entries of the
\* draft whose value is neither null nor undefined, each with its value: null
\* and undefined entries are removed, 0, the empty string, false and the empty
\* list are kept, and no core key appears among the parameters.
C15_NullStripping ==
    [][\A r \in NewSubmitRequests :
          /\ DOMAIN r.payload[1].parameters = PresentParameters
          /\ \A k \in PresentParameters : r.payload[1].parameters[k] = formValues[k]
          /\ DOMAIN r.payload[1].parameters \cap {"strategy_name", "symbol", "timeframe"} = {}]_vars

\* a request is in flight for a draft with a null entry, which its payload
\* lacks, and an entry 0, which its payload holds
C15_Witness ==
    /\ isModalOpen
    /\ formValues["a"] = JsNum(0)
    /\ formValues["b"] = JsNull
    /\ \E r \in PendingSubmissions :
          /\ r.reply = "none"
          /\ DOMAIN r.payload[1].parameters = {"period", "a"}
          /\ r.payload[1].parameters["a"] = JsNum(0)

\* C16: normalisation is idempotent: a payload taken as a draft again (its
\* parameters beside its core fields, as the editor reads a stored instance)
\* normalises to the same symbol and the same parameters.
C16_NormalizationIdempotent ==
    \A r \in PendingSubmissions :
        r.reply = "none" =>
            LET once == r.payload[1]
                twice == BuildPayload(EditValues(once))
            IN /\ twice.symbol = once.symbol
               /\ twice.parameters = once.parameters

\* a payload is in flight that normalisation has changed: the symbol of its
\* draft is in lower case and an entry of its draft is undefined
C16_Witness ==
    /\ isModalOpen
    /\ formValues["symbol"] = <<"g", "b", "p", "u", "s", "d">>
    /\ formValues["a"] = JsUndefined
    /\ \E r \in PendingSubmissions :
          /\ r.reply = "none"
          /\ r.payload[1].symbol # formValues["symbol"]
          /\ "a" \notin DOMAIN r.payload[1].parameters

-----------------------------------------------------------------------------
(* Properties of the backtest path.                                        *)

\* the backtest requests sent in this step
NewBacktestRequests == {r \in NewRequests : r.kind = "backtest"}

\* C17: the parameters in the body of a backtest request map each parameter
\* name of the selected type directly to the value entered for it, with no
\* level between and no core field among them.
C17_BacktestBodyFlat ==
    [][\A r \in NewBacktestRequests :
          LET def == DefOf(backtestValues.strategy_name)
              names == {def.parameters[i].name : i \in DOMAIN def.parameters}
          IN /\ DOMAIN r.payload[1].parameters = names
             /\ \A n \in names :
                   r.payload[1].parameters[n] = backtestValues.parameters[n]]_vars

\* C18: the symbol in the body of a backtest request is the symbol entered on
\* the backtest form upper-cased, as on the manage-strategy path.
C18_BacktestSymbolUpperCased ==
    [][\A r \in NewBacktestRequests :
          IsUpperCased(backtestValues.symbol, r.payload[1].symbol)]_vars

-----------------------------------------------------------------------------
(* Properties of the completion of a submission.                           *)

\* the requests whose completion runs in this step
CompletedRequests ==
    {r \in BagToSet(requests) : CopiesIn(r, requests') < CopiesIn(r, requests)}

\* C19: the completion of a successful create or update request closes the
\* editor, clears the current strategy and starts a fetch of the list; the
\* completion of a successful fetch makes the local list the list the backend
\* returned.
C19_SuccessClosesAndRefreshes ==
    [][\A r \in CompletedRequests :
          /\ (r.kind \in {"create", "update"} /\ r.reply = "ok") =>
                /\ ~isModalOpen'
                /\ currentStrategy' = <<>>
                /\ \E f \in NewRequests : f.kind = "fetch"
          /\ (r.kind = "fetch" /\ r.reply = "ok") => strategies' = r.data]_vars

\* a create request has succeeded and the refresh it started has succeeded:
\* the editor is closed and the local list is the backend's, with the new
\* instance in it
C19_Witness ==
    /\ ~isModalOpen
    /\ currentStrategy = <<>>
    /\ requests = EmptyBag
    /\ Len(server) = Len(InitialServer) + 1
    /\ strategies = server

\* C20: the completion of a failed create or update request leaves the editor
\* open in the same mode on the same instance, the draft and its errors as
\* they are, and the strategy list as it is, and starts no fetch.
C20_FailureLeavesState ==
    [][\A r \in CompletedRequests :
          (r.kind \in {"create", "update"} /\ r.reply = "error") =>
              /\ isModalOpen' = isModalOpen
              /\ currentStrategy' = currentStrategy
              /\ formValues' = formValues
              /\ formState' = formState
              /\ strategies' = strategies
              /\ loading' = loading
              /\ NewRequests = {}]_vars

\* the only input of the run was a submit of the untouched draft of an edit
\* session, its request has failed and is completed: the editor is still open
\* on the instance with that draft, the backend holds what it held
C20_Witness ==
    /\ OpenInEditMode
    /\ inputs = 1
    /\ formState.isSubmitted
    /\ PendingSubmissions = {}
    /\ formValues = FreshDraft(currentStrategy)
    /\ strategies = InitialServer
    /\ server = InitialServer

-----------------------------------------------------------------------------
(* C21: failure messages.                                                  *)

\* C21: the message shown for a failed list fetch, create, update, status
\* toggle, delete or backtest is the detail string of the server's response
\* when the response carries one, and a generic fallback only when it does not.
C21_FailureShowsDetail ==
    [][\A r \in CompletedRequests :
          (r.reply = "error" /\ r.data # <<>>) =>
              toast' = <<r.data[1].detail>>]_vars

-----------------------------------------------------------------------------
(* C22: what changes the local list.                                       *)

\* the kinds of request of the strategies page
ListOperations == {"fetch", "create", "update", "delete", "toggle"}

\* C22: the local list changes only in a step that completes a successful
\* fetch, create, update, delete or toggle request; the completion of a failed
\* request leaves the list as it was, and no other step (opening, closing,
\* cancelling, a type switch, a backtest) changes it.
C22_ListChangesOnlyOnSuccess ==
    [][/\ strategies' # strategies =>
            \E r \in CompletedRequests :
                r.reply = "ok" /\ r.kind \in ListOperations
       /\ \A r \in CompletedRequests :
            r.reply = "error" => strategies' = strategies]_vars

\* a loaded list has survived a failed refresh after a type switch in the editor
C22_Witness ==
    /\ toast = <<"Failed to fetch strategies.">>
    /\ strategies # <<>>
    /\ requests = EmptyBag
    /\ formValues # EmptyObject
    /\ formValues["strategy_name"] # StrategyDefs[1].key

-----------------------------------------------------------------------------
(* C23: the status switch of a card.                                       *)

\* the status the list shows for the instance with the given id
ShownStatus(list, id) == {list[j].status : j \in {k \in DOMAIN list : list[k].id = id}}

\* C23 as stated: the toggle is optimistic and is not rolled back: after a
\* toggle request for instance x to status s has failed, the local list shows
\* x with status s.
C23_FailedToggleShowsNewStatus ==
    [][\A r \in CompletedRequests :
          (r.kind = "toggle" /\ r.reply = "error") =>
              ShownStatus(strategies', r.id) \subseteq {r.payload[1].status}]_vars

\* C23: the toggle changes the local list in its success continuation only:
\* after a toggle request for instance x to status s has succeeded the list
\* shows x with status s and every other entry as before; after it has failed
\* the list is what it was, x with the status it had.
C23_ToggleAppliedOnSuccessOnly ==
    [][\A r \in CompletedRequests :
          (r.kind = "toggle" /\ r.reply # "none") =>
              IF r.reply = "ok"
              THEN /\ Len(strategies') = Len(strategies)
                   /\ \A j \in DOMAIN strategies :
                        strategies'[j] =
                          IF strategies[j].id = r.id
                          THEN [strategies[j] EXCEPT !.status = r.payload[1].status]
                          ELSE strategies[j]
              ELSE strategies' = strategies]_vars

\* a toggle of the first card has failed and the card shows its old status
C23_Witness ==
    /\ toast = <<"Failed to update status.">>
    /\ requests = EmptyBag
    /\ strategies = InitialServer
    /\ server = InitialServer
    /\ inputs = 1

-----------------------------------------------------------------------------
(* C24: a submission that completes after its editor was closed.           *)

\* the editor the request was submitted from has been closed since: it is
\* closed now, or it is open in another mode or on another instance
EditorDisposedFor(r) ==
    \/ ~isModalOpen
    \/ r.kind = "create" /\ currentStrategy # <<>>
    \/ r.kind = "update" /\ (currentStrategy = <<>> \/ currentStrategy[1].id # r.id)

\* C24: when the editor was closed, and possibly reopened in create mode or on
\* another instance, while a create or update request was pending, the
\* completion of that request changes neither whether the editor is open, nor
\* its current strategy, nor its draft.
C24_CompletionGuarded ==
    [][\A r \in CompletedRequests :
          (r.kind \in {"create", "update"} /\ EditorDisposedFor(r)) =>
              /\ isModalOpen' = isModalOpen
              /\ currentStrategy' = currentStrategy
              /\ formValues' = formValues]_vars

-----------------------------------------------------------------------------
(* C25: a list fetch that races with a toggle or a delete.                 *)

\* C25: a successful fetch whose response the backend computed before a later
\* mutation is applied to the local list as it is, which leaves the local list
\* different from the backend's list; with the witness below, an interleaving
\* of a fetch with a successful toggle ends with no request in flight and the
\* two lists different.
C25_StaleResponseApplied ==
    [][\A r \in CompletedRequests :
          (r.kind = "fetch" /\ r.reply = "ok" /\ r.data # server) =>
              /\ strategies' = r.data
              /\ strategies' # server']_vars

\* nothing is in flight, the list was refreshed after a create, and a card
\* shows a status that the backend has changed since
C25_Witness ==
    /\ page = "strategies"
    /\ requests = EmptyBag
    /\ ~loading
    /\ Len(strategies) = Len(InitialServer) + 1
    /\ Len(server) = Len(strategies)
    /\ strategies # server
    /\ \A j \in DOMAIN strategies :
         strategies[j] = [server[j] EXCEPT !.status = strategies[j].status]
    /\ toast = <<"Strategy set to inactive.">>

-----------------------------------------------------------------------------
(* C26: the delete dialog and its request.                                 *)

\* the delete requests sent by the step
NewDeleteRequests == {r \in NewRequests : r.kind = "delete"}

\* C26: a delete request is sent only for the target the dialog has at that
\* moment, so none is sent without a target; the completion of a successful
\* delete removes from the local list the entry with the id of that request and
\* keeps the others in their order, whatever the dialog shows by then; the
\* completion of a failed delete keeps the list; both leave the dialog closed
\* and its target cleared.
C26_DeleteRemovesConfirmedTarget ==
    [][/\ \A r \in NewDeleteRequests :
            /\ strategyToDelete # <<>>
            /\ r.id = strategyToDelete[1].id
       /\ \A r \in CompletedRequests :
            (r.kind = "delete" /\ r.reply # "none") =>
                /\ ~isDeleteModalOpen'
                /\ strategyToDelete' = <<>>
                /\ strategies' =
                     IF r.reply = "ok"
                     THEN SelectSeq(strategies, LAMBDA s : s.id # r.id)
                     ELSE strategies]_vars

\* the delete of the first instance was confirmed and has succeeded on the
\* backend; meanwhile the dialog was closed and opened on the second instance
C26_Witness ==
    /\ \E r \in BagToSet(requests) :
          r.kind = "delete" /\ r.reply = "ok" /\ r.id = InitialServer[1].id
    /\ isDeleteModalOpen
    /\ strategyToDelete = <<InitialServer[2]>>
    /\ strategies = InitialServer
    /\ server = Tail(InitialServer)

-----------------------------------------------------------------------------
(* C27: the dialog flags and their targets.                                *)

\* C27: on the strategies page the delete dialog is open exactly when a delete
\* target is set, and a current strategy is set only while the editor is open.
C27_FlagsAgreeWithTargets ==
    page = "strategies" =>
        /\ isDeleteModalOpen <=> strategyToDelete # <<>>
        /\ currentStrategy # <<>> => isModalOpen

\* the delete dialog is open on a card after the editor was used on an
\* instance and closed with its update still pending
C27_Witness ==
    /\ isDeleteModalOpen
    /\ strategyToDelete # <<>>
    /\ ~isModalOpen
    /\ currentStrategy = <<>>
    /\ \E r \in BagToSet(requests) : r.kind = "update"

-----------------------------------------------------------------------------
(* C28: the loading flag of the list.                                      *)

\* the list fetches that have not completed
PendingFetches == {r \in BagToSet(requests) : r.kind = "fetch"}

\* C28: on the strategies page the loading flag is true exactly while at least
\* one list fetch is in flight, also when fetches overlap.
C28_LoadingWhileFetching ==
    page = "strategies" => (loading <=> PendingFetches # {})

-----------------------------------------------------------------------------
(* C29: the loading flag of the backtest page.                             *)

\* the backtest requests that have not completed
PendingBacktests == {r \in BagToSet(requests) : r.kind = "backtest"}

\* C29: on the backtest page at most one backtest request is in flight and the
\* loading flag is true exactly while one is; no backtest request is sent
\* while the flag is true; and a true flag is eventually followed by a false
\* one, whether the request succeeds or fails.
C29_OneBacktestAtATime ==
    /\ [](page = "backtest" =>
            /\ BagCardinality(requests) <= 1
            /\ backtestLoading <=> PendingBacktests # {})
    /\ [][NewBacktestRequests # {} => ~backtestLoading]_vars
    /\ (backtestLoading ~> ~backtestLoading)

\* a backtest has failed, the flag is false again and nothing is in flight
C29_Witness ==
    /\ page = "backtest"
    /\ toast = <<"Backtest failed to start.">>
    /\ ~backtestLoading
    /\ requests = EmptyBag
    /\ ENABLED RunBacktest

=============================================================================
